---- MODULE Spec2Model ----
(***************************************************************************)
(* The two capabilities of the cred.buzz agent, getAuthorDetails and       *)
(* getTopTweets: argument schema, one outbound GET, response normaliser    *)
(* and error translator, as a state machine over capability invocations.   *)
(***************************************************************************)
EXTENDS Integers, Sequences, FiniteSets, TLC

(***************************************************************************)
(* JavaScript values.  Each type has its own field names, so that two      *)
(* values of different types are unequal records.  A number is the         *)
(* rational n/d with d = 1 (an integer) or d = 2 (a half).                 *)
(***************************************************************************)
Undef == [t |-> "undefined"]
Null == [t |-> "null"]
Num(k) == [t |-> "number", n |-> k, d |-> 1]
Half(k) == [t |-> "number", n |-> k, d |-> 2]
Str(x) == [t |-> "string", s |-> x]
Arr(xs) == [t |-> "array", a |-> xs]
Obj(ks, r) == [t |-> "object", keys |-> ks, f |-> r]

IsNullish(v) == v.t \in {"undefined", "null"}
IsInteger(v) == v.t = "number" /\ v.n % v.d = 0

\* ToBoolean: the test behind `!x`, `x || y` and `c ? a : b`.
Truthy(v) ==
  CASE v.t \in {"undefined", "null"} -> FALSE
    [] v.t = "number" -> v.n # 0
    [] v.t = "string" -> v.s # ""
    [] OTHER -> TRUE

\* `a || b`
OrElse(a, b) == IF Truthy(a) THEN a ELSE b

\* `o.k` on an object: undefined when the object has no such property.
Get(o, k) == IF k \in DOMAIN o.f THEN o.f[k] ELSE Undef

Pad3(k) ==
  IF k < 10 THEN "00" \o ToString(k)
  ELSE IF k < 100 THEN "0" \o ToString(k) ELSE ToString(k)

RECURSIVE Grouped(_)
Grouped(k) ==
  IF k < 1000 THEN ToString(k)
  ELSE Grouped(k \div 1000) \o "," \o Pad3(k % 1000)

\* The fraction digits of n/d, d in {1, 2}, n >= 0.
Fraction(v) == IF v.n % v.d = 0 THEN "" ELSE ".5"

\* Number.prototype.toString()
NumberToString(v) ==
  IF v.n < 0 THEN "-" \o ToString((-v.n) \div v.d) \o Fraction([v EXCEPT !.n = -v.n])
  ELSE ToString(v.n \div v.d) \o Fraction(v)

\* Number.prototype.toLocaleString(): grouped thousands.
NumberToLocaleString(v) ==
  IF v.n < 0 THEN "-" \o Grouped((-v.n) \div v.d) \o Fraction([v EXCEPT !.n = -v.n])
  ELSE Grouped(v.n \div v.d) \o Fraction(v)

\* `x?.toLocaleString()`
OptLocaleString(v) ==
  CASE IsNullish(v) -> Undef
    [] v.t = "number" -> Str(NumberToLocaleString(v))
    [] v.t = "string" -> v
    [] OTHER -> Str("[object Object]")

\* `${x}` in a template literal.
Interpolate(v) ==
  CASE v.t = "undefined" -> "undefined"
    [] v.t = "null" -> "null"
    [] v.t = "number" -> NumberToString(v)
    [] v.t = "string" -> v.s
    [] OTHER -> "[object Object]"

(***************************************************************************)
(* JSON.stringify(value, null, 2).  The strings of the model hold no       *)
(* character that JSON escapes.                                            *)
(***************************************************************************)
RECURSIVE Serialize(_, _)
RECURSIVE SerializeItems(_, _, _)
RECURSIVE SerializeMembers(_, _, _, _)

SerializeItems(xs, k, ind) ==
  IF k > Len(xs) THEN ""
  ELSE ind \o (IF xs[k].t = "undefined" THEN "null" ELSE Serialize(xs[k], ind))
       \o (IF k < Len(xs) THEN ",\n" ELSE "")
       \o SerializeItems(xs, k + 1, ind)

SerializeMembers(ks, r, k, ind) ==
  IF k > Len(ks) THEN ""
  ELSE ind \o "\"" \o ks[k] \o "\": " \o Serialize(r[ks[k]], ind)
       \o (IF k < Len(ks) THEN ",\n" ELSE "")
       \o SerializeMembers(ks, r, k + 1, ind)

Serialize(v, ind) ==
  CASE v.t = "null" -> "null"
    [] v.t = "number" -> NumberToString(v)
    [] v.t = "string" -> "\"" \o v.s \o "\""
    [] v.t = "array" ->
         IF v.a = <<>> THEN "[]"
         ELSE "[\n" \o SerializeItems(v.a, 1, ind \o "  ") \o "\n" \o ind \o "]"
    [] v.t = "object" ->
         LET present == SelectSeq(v.keys, LAMBDA k : v.f[k].t # "undefined")
         IN  IF present = <<>> THEN "{}"
             ELSE "{\n" \o SerializeMembers(present, v.f, 1, ind \o "  ")
                  \o "\n" \o ind \o "}"

JSONStringify(v) == Str(Serialize(v, ""))

(***************************************************************************)
(* Argument schemas (zod).  A parse yields the issues found, in field      *)
(* order, and the parsed record with the defaults filled in.               *)
(***************************************************************************)
LimitMin == 1
LimitMax == 50
LimitDefault == 5

Intervals == {"1day", "7day", "30day"}
SortKeys == {"view_count_desc", "like_count_desc", "reply_count_desc",
             "retweet_count_desc", "created_at_desc"}

Issue(path, code) == <<[path |-> path, code |-> code]>>

\* .default(d): the default replaces an undefined input only.
ZodDefault(v, d) == IF v.t = "undefined" THEN d ELSE v

\* z.string()
ZodString(path, v) ==
  IF v.t = "string" THEN <<>> ELSE Issue(path, "invalid_type")

\* z.enum(options)
ZodEnum(path, v, options) ==
  IF v.t # "string" THEN Issue(path, "invalid_type")
  ELSE IF v.s \in options THEN <<>> ELSE Issue(path, "invalid_enum_value")

\* z.number().min(lo).max(hi)
ZodNumberMinMax(path, v, lo, hi) ==
  IF v.t # "number" THEN Issue(path, "invalid_type")
  ELSE (IF v.n < lo * v.d THEN Issue(path, "too_small") ELSE <<>>)
       \o (IF v.n > hi * v.d THEN Issue(path, "too_big") ELSE <<>>)

AuthorDetailsSchema(r) ==
  [issues |-> ZodString("author_handle", r.author_handle),
   data |-> [author_handle |-> r.author_handle]]

LimitSchema(v) ==
  ZodNumberMinMax("limit", ZodDefault(v, Num(LimitDefault)), LimitMin, LimitMax)

TopTweetsSchema(r) ==
  LET interval == ZodDefault(r.interval, Str("7day"))
      sort_by == ZodDefault(r.sort_by, Str("view_count_desc"))
      limit == ZodDefault(r.limit, Num(LimitDefault))
  IN  [issues |-> ZodString("author_handle", r.author_handle)
                  \o ZodEnum("interval", interval, Intervals)
                  \o ZodEnum("sort_by", sort_by, SortKeys)
                  \o LimitSchema(r.limit),
       data |-> [author_handle |-> r.author_handle, interval |-> interval,
                 sort_by |-> sort_by, limit |-> limit]]

(***************************************************************************)
(* Request builder.  The handles of the model consist of unreserved        *)
(* characters, which encodeURIComponent and URLSearchParams leave as they  *)
(* are.                                                                    *)
(***************************************************************************)
AuthorDetailsUrl(a) ==
  "https://api.cred.buzz/user/author-handle-details?author_handle="
    \o a.author_handle.s

TopTweetsUrl(a) ==
  "https://api.cred.buzz/user/get-top-tweets?"
    \o "author_handle=" \o a.author_handle.s
    \o "&interval=" \o a.interval.s
    \o "&sort_by=" \o a.sort_by.s
    \o "&limit=" \o NumberToString(a.limit)

(***************************************************************************)
(* Completions of a block of code: a returned value (with the presentation *)
(* record it was serialised from, if any) or a thrown error.  A thrown     *)
(* value records whether axios made it, whether it is an Error, the HTTP   *)
(* response it carries and its message.                                    *)
(***************************************************************************)
Return(v, rec) == [k |-> "return", v |-> v, rec |-> rec]
Throw(e) == [k |-> "throw", e |-> e]

Thrown(isAxios, isErr, resp, msg) ==
  [axios |-> isAxios, isError |-> isErr, response |-> resp, message |-> msg]
TypeError(msg) == Thrown(FALSE, TRUE, Undef, msg)
HttpResponse(status, text) ==
  Obj(<<"status", "statusText">>, [status |-> Num(status), statusText |-> Str(text)])

\* `o.k`: undefined on a value that has no such property.
Prop(o, k) == IF o.t = "object" THEN Get(o, k) ELSE Undef

\* `x.length`
Length(v) ==
  CASE v.t = "array" -> Num(Len(v.a))
    [] v.t = "string" -> Num(Len(v.s))
    [] OTHER -> Undef

(***************************************************************************)
(* getAuthorDetails.run                                                    *)
(***************************************************************************)
NA == Str("N/A")

AuthorDetailKeys ==
  <<"handle", "name", "bio", "profileUrl", "followers", "following",
    "accountCreated", "cryptoTweets", "cryptoTweetViews", "engagementScore",
    "followersImpact", "symbolsMentioned", "symbolsLast24h", "newSymbolsLast24h",
    "mentions24h", "mindshare", "smartFollowers", "tags">>

TagsUnchanged(tags) == tags

\* `author.tags.length > 0 ? author.tags : ['None']`, for tags that is not
\* nullish (a nullish tags throws before this is evaluated).
TagsOrNone(tags) ==
  LET len == Length(tags)
  IN  IF len.t = "number" /\ len.n > 0 THEN tags ELSE Arr(<<Str("None")>>)

\* The object literal formattedDetails.
FormattedDetails(author) ==
  Obj(AuthorDetailKeys,
      [handle |-> Prop(author, "author_handle"),
       name |-> OrElse(Prop(author, "name"), NA),
       bio |-> OrElse(Prop(author, "bio"), NA),
       profileUrl |-> OrElse(Prop(author, "url_in_bio"), NA),
       followers |-> OrElse(OptLocaleString(Prop(author, "followers_count")), NA),
       following |-> OrElse(OptLocaleString(Prop(author, "followings_count")), NA),
       accountCreated |-> OrElse(Prop(author, "account_created_at"), NA),
       cryptoTweets |-> OrElse(OptLocaleString(Prop(author, "crypto_tweets_all")), NA),
       cryptoTweetViews |->
         OrElse(OptLocaleString(Prop(author, "crypto_tweets_views_all")), NA),
       engagementScore |-> OrElse(Prop(author, "engagement_score"), NA),
       followersImpact |-> OrElse(Prop(author, "followers_impact"), NA),
       symbolsMentioned |-> OrElse(Prop(author, "total_symbols_mentioned"), NA),
       symbolsLast24h |-> OrElse(Prop(author, "symbols_mentioned_in_last_24hr"), NA),
       newSymbolsLast24h |->
         OrElse(Prop(author, "new_symbols_mentioned_in_last_24hr"), NA),
       mentions24h |-> OrElse(Prop(author, "mentions_24hr"), NA),
       mindshare |-> OrElse(Prop(author, "mindshare"), NA),
       smartFollowers |->
         OrElse(OptLocaleString(Prop(author, "smart_followers_count")), NA),
       tags |-> TagsOrNone(Prop(author, "tags"))])

\* The try block after the awaited response.
AuthorDetailsBody(a, data) ==
  IF ~Truthy(data) \/ ~Truthy(Prop(data, "result"))
  THEN Return(Str("No author details found for the provided handle."), Undef)
  ELSE LET author == Prop(data, "result")
           tags == Prop(author, "tags")
       IN  IF IsNullish(tags)
           THEN Throw(TypeError("Cannot read properties of " \o Interpolate(tags)
                                \o " (reading 'length')"))
           ELSE Return(JSONStringify(FormattedDetails(author)),
                       FormattedDetails(author))

\* axios.isAxiosError(error)
IsAxiosError(e) == e.axios

ResponseFieldStatusOnly(e, k) ==
  IF IsNullish(e.response) THEN Undef ELSE Prop(e.response, "status")

\* `error.response?.status`, `error.response?.statusText`
ResponseField(e, k) == IF IsNullish(e.response) THEN Undef ELSE Prop(e.response, k)

NotFoundStatus == 404
RateLimitStatus == 429

\* `error instanceof Error ? error.message : 'Unknown error'`
ErrorMessage(e) == IF e.isError THEN e.message ELSE "Unknown error"

\* The catch block of getAuthorDetails.run.
AuthorDetailsCatch(e) ==
  IF IsAxiosError(e)
  THEN IF ResponseField(e, "status") = Num(NotFoundStatus)
       THEN Str("Author not found. Please check the handle and try again.")
       ELSE IF ResponseField(e, "status") = Num(RateLimitStatus)
       THEN Str("Rate limit exceeded. Please try again later.")
       ELSE Str("API error: " \o Interpolate(ResponseField(e, "status")) \o " - "
                \o Interpolate(ResponseField(e, "statusText")))
  ELSE Str("Error fetching author details: " \o ErrorMessage(e))

(***************************************************************************)
(* getTopTweets.run                                                        *)
(***************************************************************************)
TweetKeys == <<"position", "tweetId", "content", "createdAt", "metrics",
               "symbolsMentioned">>
MetricKeys == <<"views", "likes", "replies", "retweets", "quotes", "bookmarks">>
SummaryKeys == <<"author", "totalTweets", "interval", "sortedBy", "tweets">>

\* The callback of tweets.map, for a tweet that is not nullish.
FormatTweet(tweet, index) ==
  Obj(TweetKeys,
      [position |-> Num(index + 1),
       tweetId |-> Prop(tweet, "tweet_id"),
       content |-> Prop(tweet, "content"),
       createdAt |-> Prop(tweet, "created_at"),
       metrics |->
         Obj(MetricKeys,
             [views |-> OrElse(OptLocaleString(Prop(tweet, "view_count")), NA),
              likes |-> OrElse(OptLocaleString(Prop(tweet, "like_count")), NA),
              replies |-> OrElse(OptLocaleString(Prop(tweet, "reply_count")), NA),
              retweets |-> OrElse(OptLocaleString(Prop(tweet, "retweet_count")), NA),
              quotes |-> OrElse(OptLocaleString(Prop(tweet, "quote_count")), NA),
              bookmarks |->
                OrElse(OptLocaleString(Prop(tweet, "bookmark_count")), NA)]),
       symbolsMentioned |-> OrElse(Prop(tweet, "symbols_mentioned"), Arr(<<>>))])

FormattedTweetsReversed(tweets) ==
  Arr([j \in 1..Len(tweets.a) |->
         FormatTweet(tweets.a[Len(tweets.a) + 1 - j], j - 1)])

\* tweets.map((tweet, index) => ...): index runs from 0.
FormattedTweets(tweets) ==
  Arr([j \in 1..Len(tweets.a) |-> FormatTweet(tweets.a[j], j - 1)])

\* The object literal summary.
Summary(a, tweets) ==
  Obj(SummaryKeys,
      [author |-> a.author_handle,
       totalTweets |-> Length(tweets),
       interval |-> a.interval,
       sortedBy |-> a.sort_by,
       tweets |-> FormattedTweets(tweets)])

\* `!response.data.result || response.data.result.length === 0`
NoTweetsOnlyMissing(data) == ~Truthy(Prop(data, "result"))

NoTweets(data) ==
  ~Truthy(Prop(data, "result")) \/ Length(Prop(data, "result")) = Num(0)

\* The try block after the awaited response.
TopTweetsBody(a, data) ==
  IF ~Truthy(data)
  THEN Return(Str("No response received from the API."), Undef)
  ELSE IF NoTweets(data)
  THEN Return(Str("No tweets found for author \"" \o Interpolate(a.author_handle)
                  \o "\" in the specified time period."), Undef)
  ELSE LET tweets == Prop(data, "result")
       IN  IF tweets.t # "array"
           THEN Throw(TypeError("tweets.map is not a function"))
           ELSE IF \E j \in 1..Len(tweets.a) : IsNullish(tweets.a[j])
           THEN Throw(TypeError("Cannot read properties of null (reading 'tweet_id')"))
           ELSE Return(JSONStringify(Summary(a, tweets)), Summary(a, tweets))

\* The catch block of getTopTweets.run.
TopTweetsCatch(e) ==
  IF IsAxiosError(e)
  THEN IF ResponseField(e, "status") = Num(NotFoundStatus)
       THEN Str("Author not found or no tweets available. "
                \o "Please check the handle and try again.")
       ELSE IF ResponseField(e, "status") = Num(RateLimitStatus)
       THEN Str("Rate limit exceeded. Please try again later.")
       ELSE Str("API error: " \o Interpolate(ResponseField(e, "status")) \o " - "
                \o Interpolate(ResponseField(e, "statusText")))
  ELSE Str("Error fetching top tweets: " \o ErrorMessage(e))

(***************************************************************************)
(* The inputs: raw arguments a caller can pass, and what the transport     *)
(* attempt can end in.  They are kept in tuples: a set cannot hold values  *)
(* of different JavaScript types.                                          *)
(***************************************************************************)
MaxTweets == 2
MaxInvocations == 2

HandleVals == <<Str("alice"), Str("bob"), Undef, Num(7)>>
IntervalVals == <<Undef, Str("1day"), Str("30day"), Str("2day")>>
SortVals == <<Undef, Str("like_count_desc"), Str("bogus")>>
LimitVals == <<Undef, Null, Str("5"), Num(0), Num(1), Half(5), Num(50), Half(101),
               Num(51)>>

\* What axios.get rejects with.  axios makes an AxiosError of every failed
\* request: with `response` for a status outside 2xx, without it when no
\* response was obtained (connection refused, timeout, DNS failure).  The
\* last two are thrown values that did not come from axios: an Error, and a
\* value that is no Error.
FailureVals ==
  <<Thrown(TRUE, TRUE, HttpResponse(404, "Not Found"),
           "Request failed with status code 404"),
    Thrown(TRUE, TRUE, HttpResponse(429, "Too Many Requests"),
           "Request failed with status code 429"),
    Thrown(TRUE, TRUE, HttpResponse(500, "Internal Server Error"),
           "Request failed with status code 500"),
    Thrown(TRUE, TRUE, HttpResponse(503, ""), "Request failed with status code 503"),
    Thrown(TRUE, TRUE, Undef, "connect ECONNREFUSED 127.0.0.1:443"),
    Thrown(TRUE, TRUE, Undef, "timeout of 1000ms exceeded"),
    Thrown(TRUE, TRUE, Undef, "getaddrinfo ENOTFOUND api.cred.buzz"),
    Thrown(FALSE, TRUE, Undef, "socket hang up"),
    Thrown(FALSE, FALSE, Undef, "")>>

AuthorKeys ==
  <<"author_handle", "name", "bio", "url_in_bio", "profile_image_url",
    "profile_banner_url", "followers_count", "followings_count",
    "account_created_at", "crypto_tweets_all", "crypto_tweets_views_all",
    "engagement_score", "followers_impact", "total_symbols_mentioned",
    "symbols_mentioned_in_last_24hr", "new_symbols_mentioned_in_last_24hr",
    "unique_author_handle_count", "total_mention_count", "tags", "mentions_24hr",
    "mindshare", "smart_followers_count">>

\* An AuthorDetails whose string fields are sv, whose counts (rendered with
\* toLocaleString) are cv, whose other numbers are ev and whose tags are tv.
AuthorWith(sv, cv, ev, tv) ==
  Obj(AuthorKeys,
      [author_handle |-> Str("alice"), name |-> sv, bio |-> sv, url_in_bio |-> sv,
       profile_image_url |-> sv, profile_banner_url |-> sv,
       followers_count |-> cv, followings_count |-> cv,
       account_created_at |-> sv, crypto_tweets_all |-> cv,
       crypto_tweets_views_all |-> cv, engagement_score |-> ev,
       followers_impact |-> ev, total_symbols_mentioned |-> ev,
       symbols_mentioned_in_last_24hr |-> ev,
       new_symbols_mentioned_in_last_24hr |-> ev,
       unique_author_handle_count |-> ev, total_mention_count |-> ev,
       tags |-> tv, mentions_24hr |-> ev, mindshare |-> ev,
       smart_followers_count |-> cv])

StringVals == <<Undef, Null, Str(""), Str("Alice")>>
CountVals == <<Undef, Null, Num(0), Num(1234567)>>
ScoreVals == <<Undef, Null, Num(0), Half(5)>>
TagVals == <<Undef, Null, Arr(<<>>), Arr(<<Str("kol"), Str("dev")>>)>>

TweetFields ==
  <<"tweet_id", "author_handle", "content", "created_at", "view_count",
    "like_count", "reply_count", "retweet_count", "quote_count", "bookmark_count",
    "symbols_mentioned">>

\* A Tweet whose counters are cv and whose mentioned symbols are yv.
TweetWith(id, cv, yv) ==
  Obj(TweetFields,
      [tweet_id |-> Str(id), author_handle |-> Str("alice"),
       content |-> Str("gm " \o id), created_at |-> Str("2025-01-01T00:00:00Z"),
       view_count |-> cv, like_count |-> cv, reply_count |-> cv,
       retweet_count |-> cv, quote_count |-> cv, bookmark_count |-> cv,
       symbols_mentioned |-> yv])

TweetVals ==
  <<Null,
    TweetWith("t1", Undef, Undef),
    TweetWith("t2", Num(0), Arr(<<>>)),
    TweetWith("t3", Num(1234567), Arr(<<Str("BTC"), Str("ETH")>>))>>

\* The decoded body { result, message }.
Body(result) ==
  Obj(<<"result", "message">>, [result |-> result, message |-> Str("success")])

\* Bodies of a 2xx response that carry no list of tweets: no body at all, an
\* empty body, no result, a null result, an empty list, a result that is no
\* list.
EmptyBodies ==
  <<Undef, Str(""), Obj(<<"message">>, [message |-> Str("success")]), Body(Null),
    Body(Arr(<<>>)), Body(Str("oops"))>>

NoOutcome == [k |-> "none"]
Ok(data) == [k |-> "ok", data |-> data]
Fail(e) == [k |-> "fail", e |-> e]

(***************************************************************************)
(* State.  Each invocation of a capability has its own position, its own   *)
(* arguments and its own locals; Ids names the invocations.                *)
(***************************************************************************)
VARIABLES
  pc,         \* where the invocation is
  cap,        \* the capability invoked
  raw,        \* the caller's arguments, before validation
  issues,     \* the validation issues of a rejected call
  args,       \* `args`: the validated arguments
  requests,   \* how many GETs the invocation has issued
  request,    \* the URL of the GET
  outcome,    \* what the transport attempt ended in
  error,      \* `error`: the value the catch block caught
  formatted,  \* `formattedDetails` / `summary`
  result      \* the value run returned

vars == <<pc, cap, raw, issues, args, requests, request, outcome, error,
          formatted, result>>

Ids == DOMAIN pc

InitOf(ids) ==
  /\ pc = [i \in ids |-> "idle"]
  /\ cap = [i \in ids |-> "none"]
  /\ raw = [i \in ids |-> Undef]
  /\ issues = [i \in ids |-> <<>>]
  /\ args = [i \in ids |-> Undef]
  /\ requests = [i \in ids |-> 0]
  /\ request = [i \in ids |-> Undef]
  /\ outcome = [i \in ids |-> NoOutcome]
  /\ error = [i \in ids |-> Undef]
  /\ formatted = [i \in ids |-> Undef]
  /\ result = [i \in ids |-> Undef]

\* The host receives a call of capability c with arguments r.
Invoke(i, c, r) ==
  /\ pc[i] = "idle"
  /\ pc' = [pc EXCEPT ![i] = "validating"]
  /\ cap' = [cap EXCEPT ![i] = c]
  /\ raw' = [raw EXCEPT ![i] = r]
  /\ UNCHANGED <<issues, args, requests, request, outcome, error, formatted, result>>

InvokeAuthorDetails(i) ==
  \E h \in DOMAIN HandleVals :
    Invoke(i, "getAuthorDetails", [author_handle |-> HandleVals[h]])

InvokeTopTweets(i) ==
  \E h \in DOMAIN HandleVals, v \in DOMAIN IntervalVals, s \in DOMAIN SortVals,
     l \in DOMAIN LimitVals :
    Invoke(i, "getTopTweets",
           [author_handle |-> HandleVals[h], interval |-> IntervalVals[v],
            sort_by |-> SortVals[s], limit |-> LimitVals[l]])

SchemaOf(c, r) ==
  IF c = "getAuthorDetails" THEN AuthorDetailsSchema(r) ELSE TopTweetsSchema(r)

\* The host parses the arguments against the capability's schema; run is
\* called with the parsed record, and not at all when the parse fails.
Validate(i) ==
  /\ pc[i] = "validating"
  /\ LET parsed == SchemaOf(cap[i], raw[i])
     IN  IF parsed.issues # <<>>
         THEN /\ pc' = [pc EXCEPT ![i] = "rejected"]
              /\ issues' = [issues EXCEPT ![i] = parsed.issues]
              /\ UNCHANGED args
         ELSE /\ pc' = [pc EXCEPT ![i] = "running"]
              /\ args' = [args EXCEPT ![i] = parsed.data]
              /\ UNCHANGED issues
  /\ UNCHANGED <<cap, raw, requests, request, outcome, error, formatted, result>>

\* The arguments of the earliest call of the same capability that has any.
ArgsOfShared(i) ==
  LET called == {j \in Ids : cap[j] = cap[i] /\ args[j] # Undef}
  IN  args[CHOOSE j \in called : \A k \in called : j <= k]

\* `args` as the handler's code reads it: the parameter of its own call.
ArgsOf(i) == args[i]

UrlOf(c, a) ==
  IF c = "getAuthorDetails" THEN AuthorDetailsUrl(a) ELSE TopTweetsUrl(a)

\* run, up to the await: the request is built and axios.get is called.
AxiosGet(i) ==
  /\ pc[i] = "running"
  /\ pc' = [pc EXCEPT ![i] = "inflight"]
  /\ request' = [request EXCEPT ![i] = Str(UrlOf(cap[i], ArgsOf(i)))]
  /\ requests' = [requests EXCEPT ![i] = @ + 1]
  /\ UNCHANGED <<cap, raw, issues, args, outcome, error, formatted, result>>

AfterThrowOnlyAxios(e) == IF e.axios THEN "caught" ELSE "raised"

\* Where control goes when the try block throws e: the catch block.
AfterThrow(e) == "caught"

AfterCatchRetry(e) ==
  IF e.axios /\ IsNullish(e.response) THEN "running" ELSE "returned"

\* Where control goes when the catch block has handled e: every branch returns.
AfterCatch(e) == "returned"

\* The awaited promise settles with o: run resumes after the await, or in
\* the catch block.
Settle(i, o) ==
  /\ pc[i] = "inflight"
  /\ outcome' = [outcome EXCEPT ![i] = o]
  /\ IF o.k = "ok"
     THEN /\ pc' = [pc EXCEPT ![i] = "resolved"]
          /\ UNCHANGED error
     ELSE /\ pc' = [pc EXCEPT ![i] = AfterThrow(o.e)]
          /\ error' = [error EXCEPT ![i] = o.e]
  /\ UNCHANGED <<cap, raw, issues, args, requests, request, formatted, result>>

RequestFails(i) ==
  \E k \in DOMAIN FailureVals : Settle(i, Fail(FailureVals[k]))

AuthorDetailsResponds(i) ==
  /\ cap[i] = "getAuthorDetails"
  /\ \/ \E k \in DOMAIN EmptyBodies : Settle(i, Ok(EmptyBodies[k]))
     \/ \E s \in DOMAIN StringVals, c \in DOMAIN CountVals, e \in DOMAIN ScoreVals,
           g \in DOMAIN TagVals :
          Settle(i, Ok(Body(AuthorWith(StringVals[s], CountVals[c], ScoreVals[e],
                                       TagVals[g]))))

TopTweetsResponds(i) ==
  /\ cap[i] = "getTopTweets"
  /\ \/ \E k \in DOMAIN EmptyBodies : Settle(i, Ok(EmptyBodies[k]))
     \/ \E n \in 1..MaxTweets : \E f \in [1..n -> DOMAIN TweetVals] :
          Settle(i, Ok(Body(Arr([j \in 1..n |-> TweetVals[f[j]]]))))

BodyOf(c, a, data) ==
  IF c = "getAuthorDetails" THEN AuthorDetailsBody(a, data) ELSE TopTweetsBody(a, data)

CatchOf(c, e) ==
  IF c = "getAuthorDetails" THEN AuthorDetailsCatch(e) ELSE TopTweetsCatch(e)

\* The rest of the try block, from the response to the return.
Normalize(i) ==
  /\ pc[i] = "resolved"
  /\ LET done == BodyOf(cap[i], ArgsOf(i), outcome[i].data)
     IN  IF done.k = "return"
         THEN /\ pc' = [pc EXCEPT ![i] = "returned"]
              /\ result' = [result EXCEPT ![i] = done.v]
              /\ formatted' = [formatted EXCEPT ![i] = done.rec]
              /\ UNCHANGED error
         ELSE /\ pc' = [pc EXCEPT ![i] = AfterThrow(done.e)]
              /\ error' = [error EXCEPT ![i] = done.e]
              /\ UNCHANGED <<result, formatted>>
  /\ UNCHANGED <<cap, raw, issues, args, requests, request, outcome>>

\* The catch block.
Translate(i) ==
  /\ pc[i] = "caught"
  /\ pc' = [pc EXCEPT ![i] = AfterCatch(error[i])]
  /\ result' = [result EXCEPT ![i] = CatchOf(cap[i], error[i])]
  /\ UNCHANGED <<cap, raw, issues, args, requests, request, outcome, error, formatted>>

\* One invocation, every input.
Init == InitOf({1})

Next ==
  \/ \E i \in Ids : InvokeAuthorDetails(i)
  \/ \E i \in Ids : InvokeTopTweets(i)
  \/ \E i \in Ids : Validate(i)
  \/ \E i \in Ids : AxiosGet(i)
  \/ \E i \in Ids : RequestFails(i)
  \/ \E i \in Ids : AuthorDetailsResponds(i)
  \/ \E i \in Ids : TopTweetsResponds(i)
  \/ \E i \in Ids : Normalize(i)
  \/ \E i \in Ids : Translate(i)

Spec == Init /\ [][Next]_vars

(***************************************************************************)
(* Several invocations at once, interleaved step by step, over a smaller   *)
(* choice of inputs.                                                       *)
(***************************************************************************)
ConcurrentHandles == <<Str("alice"), Str("bob")>>

RawOf(c, h) ==
  IF c = "getAuthorDetails" THEN [author_handle |-> h]
  ELSE [author_handle |-> h, interval |-> Undef, sort_by |-> Undef, limit |-> Undef]

InvokeConcurrent(i) ==
  \E c \in {"getAuthorDetails", "getTopTweets"}, h \in DOMAIN ConcurrentHandles :
    Invoke(i, c, RawOf(c, ConcurrentHandles[h]))

ConcurrentOutcomes(c) ==
  <<Fail(FailureVals[1]),
    Fail(FailureVals[5]),
    Ok(Body(Arr(<<>>))),
    IF c = "getAuthorDetails"
    THEN Ok(Body(AuthorWith(Str("Alice"), Num(1234567), Half(5), TagVals[4])))
    ELSE Ok(Body(Arr(<<TweetVals[4]>>)))>>

SettleConcurrent(i) ==
  \E k \in DOMAIN ConcurrentOutcomes(cap[i]) : Settle(i, ConcurrentOutcomes(cap[i])[k])

InitConcurrent == InitOf(1..MaxInvocations)

NextConcurrent ==
  \/ \E i \in Ids : InvokeConcurrent(i)
  \/ \E i \in Ids : Validate(i)
  \/ \E i \in Ids : AxiosGet(i)
  \/ \E i \in Ids : SettleConcurrent(i)
  \/ \E i \in Ids : Normalize(i)
  \/ \E i \in Ids : Translate(i)

SpecConcurrent == InitConcurrent /\ [][NextConcurrent]_vars

\* What run returns for capability c called with raw arguments r when the
\* transport attempt ends in o, the invocation running alone from start to end.
RunAlone(c, r, o) ==
  LET a == SchemaOf(c, r).data
  IN  IF o.k = "ok"
      THEN LET done == BodyOf(c, a, o.data)
           IN  IF done.k = "return" THEN done.v ELSE CatchOf(c, done.e)
      ELSE CatchOf(c, o.e)

(***************************************************************************)
(* Properties.                                                             *)
(***************************************************************************)
Returned(i) == pc[i] = "returned"
IsAuthorDetails(i) == cap[i] = "getAuthorDetails"
IsTopTweets(i) == cap[i] = "getTopTweets"

\* The transport attempt of i ended without any HTTP response.
NoResponse(i) == outcome[i].k = "fail" /\ IsNullish(outcome[i].e.response)

\* The transport attempt of i ended in an HTTP response outside 2xx.
ErrorResponse(i) == outcome[i].k = "fail" /\ ~IsNullish(outcome[i].e.response)

FetchPrefix(c) ==
  IF c = "getAuthorDetails" THEN "Error fetching author details: "
  ELSE "Error fetching top tweets: "

\* C1: a transport attempt that obtains no HTTP response makes run return
\* "Error fetching author details: " / "Error fetching top tweets: " followed
\* by the failure's message, or by "Unknown error" when it has none.
C1_NoResponseIsErrorFetching ==
  \A i \in Ids :
    (Returned(i) /\ NoResponse(i)) =>
      result[i] = Str(FetchPrefix(cap[i])
                      \o (IF outcome[i].e.isError THEN outcome[i].e.message
                          ELSE "Unknown error"))

\* C2: whatever the validated arguments and whatever the transport attempt
\* ends in, run never raises: with the response in hand the try block
\* either returns a string or throws into the catch block, the catch block
\* can always run, and what run returns is a string.
C2_RunReturnsString ==
  \A i \in Ids :
    /\ pc[i] # "raised"
    /\ Returned(i) => result[i].t = "string"
    /\ pc[i] = "resolved" =>
         LET done == BodyOf(cap[i], ArgsOf(i), outcome[i].data)
         IN  \/ done.k = "return" /\ done.v.t = "string"
             \/ done.k = "throw" /\ AfterThrow(done.e) = "caught"
    /\ pc[i] = "caught" => ENABLED Translate(i)

\* A result object without tags made the try block throw, and run returned.
C2_Witness ==
  \E i \in Ids :
    /\ Returned(i) /\ IsAuthorDetails(i) /\ outcome[i].k = "ok"
    /\ Truthy(Prop(outcome[i].data, "result"))
    /\ Prop(Prop(outcome[i].data, "result"), "tags") = Undef
    /\ error[i] # Undef /\ ~error[i].axios
    /\ result[i].t = "string"

\* The optional fields of AuthorDetails and the presentation fields they
\* are rendered to.
OptionalFields ==
  <<<<"name", "name">>, <<"bio", "bio">>, <<"url_in_bio", "profileUrl">>,
    <<"followers_count", "followers">>, <<"followings_count", "following">>,
    <<"account_created_at", "accountCreated">>,
    <<"crypto_tweets_all", "cryptoTweets">>,
    <<"crypto_tweets_views_all", "cryptoTweetViews">>,
    <<"engagement_score", "engagementScore">>,
    <<"followers_impact", "followersImpact">>,
    <<"total_symbols_mentioned", "symbolsMentioned">>,
    <<"symbols_mentioned_in_last_24hr", "symbolsLast24h">>,
    <<"new_symbols_mentioned_in_last_24hr", "newSymbolsLast24h">>,
    <<"mentions_24hr", "mentions24h">>, <<"mindshare", "mindshare">>,
    <<"smart_followers_count", "smartFollowers">>>>

\* run returned the presentation record of an author.
Presented(i) == Returned(i) /\ IsAuthorDetails(i) /\ formatted[i] # Undef

UpstreamAuthor(i) == Prop(outcome[i].data, "result")

\* C3: in the presentation record of getAuthorDetails an optional field is
\* "N/A" exactly when the upstream value is absent or null; a field that is
\* present with the value 0 is never "N/A".
C3_SentinelIffAbsent ==
  \A i \in Ids :
    Presented(i) =>
      \A k \in DOMAIN OptionalFields :
        (formatted[i].f[OptionalFields[k][2]] = NA)
          <=> IsNullish(Prop(UpstreamAuthor(i), OptionalFields[k][1]))

\* What the claim says the status alone determines.
StatusMessage(c, status, text) ==
  IF status = 404
  THEN IF c = "getAuthorDetails"
       THEN "Author not found. Please check the handle and try again."
       ELSE "Author not found or no tweets available. Please check the handle and try again."
  ELSE IF status = 429 THEN "Rate limit exceeded. Please try again later."
  ELSE "API error: " \o ToString(status) \o " - " \o text

\* C4: when the transport attempt fails with an HTTP response, the string
\* returned is fixed by the status: the capability's not-found message for
\* 404, the rate-limit message for 429, and "API error: <status> - <status
\* text>" for every other status.
C4_StatusDeterminesMessage ==
  \A i \in Ids :
    (Returned(i) /\ ErrorResponse(i)) =>
      result[i] = Str(StatusMessage(cap[i],
                                    outcome[i].e.response.f.status.n,
                                    outcome[i].e.response.f.statusText.s))

\* A status that is neither 404 nor 429 was answered with its code and text.
C4_Witness ==
  \E i \in Ids :
    /\ Returned(i) /\ ErrorResponse(i)
    /\ outcome[i].e.response.f.status.n = 500
    /\ result[i] = Str("API error: 500 - Internal Server Error")

\* The schema has been applied to the arguments of i.
Validated(i) == pc[i] \notin {"idle", "validating"}

LimitRejected(i) ==
  pc[i] = "rejected" /\ \E k \in DOMAIN issues[i] : issues[i][k].path = "limit"

\* C5: the schema of getTopTweets accepts a supplied limit exactly when it
\* is an integer from 1 to 50 (2.5, 0 and 51 are rejected), and an omitted
\* limit becomes 5.
C5_LimitIntegerInRange ==
  \A i \in Ids :
    (IsTopTweets(i) /\ Validated(i)) =>
      IF raw[i].limit = Undef
      THEN ~LimitRejected(i) /\ (pc[i] # "rejected" => args[i].limit = Num(5))
      ELSE ~LimitRejected(i)
             <=> /\ IsInteger(raw[i].limit)
                 /\ raw[i].limit.n >= raw[i].limit.d
                 /\ raw[i].limit.n <= 50 * raw[i].limit.d

IsList(v) == v.t = "array"

UpstreamTweets(i) == Prop(outcome[i].data, "result")

\* run returned the summary of a list of tweets.
Summarized(i) == Returned(i) /\ IsTopTweets(i) /\ formatted[i] # Undef

\* C6: an empty tags list is rendered as ["None"] and a non-empty one as it
\* is; a list symbols_mentioned is rendered as it is, also when it is empty.
C6_EmptyListsAsymmetric ==
  \A i \in Ids :
    /\ Presented(i) =>
         LET tags == Prop(UpstreamAuthor(i), "tags")
         IN  IsList(tags) =>
               formatted[i].f.tags
                 = (IF Len(tags.a) = 0 THEN Arr(<<Str("None")>>) ELSE tags)
    /\ Summarized(i) =>
         \A j \in DOMAIN UpstreamTweets(i).a :
           LET symbols == Prop(UpstreamTweets(i).a[j], "symbols_mentioned")
           IN  IsList(symbols) =>
                 formatted[i].f.tweets.a[j].f.symbolsMentioned = symbols

\* A summary holding a tweet with no symbols and a tweet with some.
C6_Witness ==
  \E i \in Ids :
    /\ Summarized(i)
    /\ \E j, k \in DOMAIN formatted[i].f.tweets.a :
         /\ Prop(UpstreamTweets(i).a[j], "symbols_mentioned") = Arr(<<>>)
         /\ formatted[i].f.tweets.a[j].f.symbolsMentioned = Arr(<<>>)
         /\ formatted[i].f.tweets.a[k].f.symbolsMentioned
              = Arr(<<Str("BTC"), Str("ETH")>>)

\* The 2xx response of i has no body at all.
BodyAbsent(i) == IsNullish(outcome[i].data) \/ outcome[i].data = Str("")

\* The body of i has no result, or a result of length 0.
ResultEmpty(i) ==
  \/ IsNullish(UpstreamTweets(i))
  \/ UpstreamTweets(i) = Arr(<<>>)

C8_SingleAttempt ==
  \A i \in Ids :
    /\ requests[i] <= 1
    /\ pc[i] \in {"inflight", "resolved", "caught", "returned"} => requests[i] = 1
    /\ pc[i] \in {"idle", "validating", "rejected", "running"} => requests[i] = 0

\* An attempt that got no response was answered after one GET.
C8_Witness ==
  \E i \in Ids : Returned(i) /\ NoResponse(i) /\ requests[i] = 1

\* The result of i is a non-empty list of posts.
PostsReturned(i) ==
  /\ Returned(i) /\ IsTopTweets(i) /\ outcome[i].k = "ok"
  /\ outcome[i].data.t = "object"
  /\ IsList(UpstreamTweets(i))
  /\ Len(UpstreamTweets(i).a) > 0
  /\ \A j \in DOMAIN UpstreamTweets(i).a : UpstreamTweets(i).a[j].t = "object"

\* C9: for a result of n posts the summary lists n entries in upstream
\* order, entry j built from post j with position j counted from 1;
\* totalTweets is n; author, interval and sortedBy are the validated
\* arguments.
C9_SummaryInUpstreamOrder ==
  \A i \in Ids :
    PostsReturned(i) =>
      LET posts == UpstreamTweets(i).a
          sum == formatted[i]
      IN  /\ sum # Undef
          /\ Len(sum.f.tweets.a) = Len(posts)
          /\ \A j \in DOMAIN posts :
               /\ sum.f.tweets.a[j].f.position = Num(j)
               /\ sum.f.tweets.a[j].f.tweetId = posts[j].f.tweet_id
               /\ sum.f.tweets.a[j].f.content = posts[j].f.content
               /\ sum.f.tweets.a[j].f.createdAt = posts[j].f.created_at
          /\ sum.f.totalTweets = Num(Len(posts))
          /\ sum.f.author = raw[i].author_handle
          /\ sum.f.interval
               = (IF raw[i].interval = Undef THEN Str("7day") ELSE raw[i].interval)
          /\ sum.f.sortedBy
               = (IF raw[i].sort_by = Undef THEN Str("view_count_desc")
                  ELSE raw[i].sort_by)

\* Two different posts, summarised in the order they came in.
C9_Witness ==
  \E i \in Ids :
    /\ PostsReturned(i)
    /\ Len(UpstreamTweets(i).a) = 2
    /\ formatted[i].f.tweets.a[1].f.tweetId = Str("t3")
    /\ formatted[i].f.tweets.a[2].f.tweetId = Str("t2")
    /\ formatted[i].f.tweets.a[2].f.position = Num(2)

\* C10: under every interleaving of concurrent invocations, what an
\* invocation returns, and the request it issues, is what it returns and
\* issues when it runs alone with the same arguments and the same transport
\* outcome.
C10_InvocationsIndependent ==
  \A i \in Ids :
    /\ Returned(i) => result[i] = RunAlone(cap[i], raw[i], outcome[i])
    /\ request[i] # Undef =>
         request[i] = Str(UrlOf(cap[i], SchemaOf(cap[i], raw[i]).data))

\* Two invocations of getTopTweets for different handles have both returned,
\* each with its own handle in its result.
C10_Witness ==
  \E i, j \in Ids :
    /\ Returned(i) /\ Returned(j)
    /\ IsTopTweets(i) /\ IsTopTweets(j)
    /\ raw[i].author_handle = Str("alice") /\ raw[j].author_handle = Str("bob")
    /\ result[i]
         = Str("No tweets found for author \"alice\" in the specified time period.")
    /\ result[j]
         = Str("No tweets found for author \"bob\" in the specified time period.")
====
